---- MODULE Spec2Model ----
(***************************************************************************)
(* Model of the booking web handlers of liblaas                            *)
(* (src/liblaas/src/web/booking/mod.rs): end_booking, reimage_host,        *)
(* booking_status, notify_aggregate_expiring, request_booking_extension.   *)
(*                                                                         *)
(* Every request runs as its own task; a step of the model is the code     *)
(* between two .await points of one handler.  The relational store, its    *)
(* transactions, booking::end_booking and the DISPATCH handle live outside *)
(* this file of the repository and are modelled from their contract.       *)
(***************************************************************************)
EXTENDS Integers, Sequences, FiniteSets, TLC

\* ---------------------------------------------------------------- bounds
NumReq == 2          \* concurrent requests
NumInst == 2         \* instance rows in the store
NumAgg == 2          \* aggregate rows in the store
NumHost == 1         \* host rows in the store
NumImage == 2        \* image ids a request may name
ShortLogs == 0       \* stored events per instance, concurrent specification
MaxLogs == 3         \* stored events per instance, status specification
MaxTime == 3         \* event timestamps, in ticks
SubSec == 2          \* ticks per second (to_rfc2822 prints whole seconds)

Req == 1..NumReq
InstIds == 1..NumInst
AggIds == 1..NumAgg
HostIds == 1..NumHost
ImageIds == 1..NumImage
\* ids a caller may name: the last one of each range has no row
ReqInstIds == 1..(NumInst + 1)
ReqAggIds == 1..(NumAgg + 1)
Dates == {"2024-06-01"}
Reasons == {"more time"}

VARIABLES
    image,          \* store: Instance.config.image, committed value
    linked_host,    \* store: Instance.linked_host, {} (NULL) or {host id}
    aggregate,      \* store: Instance.aggregate
    logs,           \* store: ProvisionLogEvent times per instance, insertion order
    ended,          \* store: aggregates ended by booking::end_booking
    dispatchReady,  \* DISPATCH.get() is Some
    sent,           \* actions accepted by DISPATCH.send, in order
    pc,             \* per request: position in its handler
    op,             \* per request: the handler called
    args,           \* per request: path and body parameters
    tx,             \* per request: its transaction: none, open, committed, aborted
    txw,            \* per request: rows written in the open transaction
    inst,           \* reimage_host: local `inst`, {} or {row}
    bs,             \* booking_status: locals agg, the instance list, statuses
    res,            \* outcome of the awaited call / send: none, Ok, Err
    result          \* per request: what the handler returned

store == <<image, linked_host, aggregate, logs, ended>>
storeRO == <<linked_host, aggregate, logs>>
vars == <<image, linked_host, aggregate, logs, ended, dispatchReady, sent,
          pc, op, args, tx, txw, inst, bs, res, result>>

\* ------------------------------------------------------------ data types
None == {}
Some(v) == {v}
Unwrap(o) == CHOOSE v \in o : TRUE

Ok(body) == [kind |-> "Ok", body |-> body]
Err(code, msg) == [kind |-> "Err", code |-> code, msg |-> msg]
Panic(msg) == [kind |-> "panic", msg |-> msg]
Pending == [kind |-> "none"]
Unit == <<>>
ISE == "INTERNAL_SERVER_ERROR"

NoBs == [agg |-> None, todo |-> <<>>, statuses |-> <<>>, cur |-> <<>>, template |-> None]

\* the row of instance i as a transaction reads it
InstanceRow(i) ==
    [id |-> i, image |-> image[i], linked_host |-> linked_host[i],
     aggregate |-> aggregate[i], hostname |-> <<"alias", i>>]

AggregateRow(a) == [id |-> a, configuration |-> <<"configuration", a>>, template |-> a]

TemplateRow(t) == <<"template", t>>

\* the ProvisionLogEvent rows of instance i, in insertion order
EventRows(i) ==
    [k \in 1..Len(logs[i]) |->
        [id |-> k, instance |-> i, time |-> logs[i][k],
         prov_status |-> [event |-> <<"event", k>>, details |-> <<"details", k>>],
         sentiment |-> <<"sentiment", k>>]]

HostRow(h) == [id |-> h, server_name |-> <<"host", h>>, ipmi_fqdn |-> <<"ipmi", h>>]

\* --------------------------------------------------------------- helpers
SetPc(r, l) == pc' = [pc EXCEPT ![r] = l]

\* the handler returns v: its locals go out of scope
Return(r, v) ==
    /\ result' = [result EXCEPT ![r] = v]
    /\ pc' = [pc EXCEPT ![r] = "done"]
    /\ inst' = [inst EXCEPT ![r] = None]
    /\ bs' = [bs EXCEPT ![r] = NoBs]
    /\ txw' = [txw EXCEPT ![r] = None]

\* an open transaction dropped without commit is rolled back
DropTx(r) == tx' = [tx EXCEPT ![r] = IF tx[r] = "open" THEN "aborted" ELSE tx[r]]

\* ------------------------------------------------------------------ Init
RECURSIVE SeqsUpTo(_, _)
SeqsUpTo(S, n) ==
    IF n = 0 THEN {<<>>}
    ELSE LET shorter == SeqsUpTo(S, n - 1)
         IN shorter \cup {Append(s, x) : s \in {t \in shorter : Len(t) = n - 1}, x \in S}

\* every instance starts on the first image; reimage_host moves it
FirstImage == CHOOSE m \in ImageIds : \A n \in ImageIds : m <= n

InitStore(maxLogs) ==
    /\ image = [i \in InstIds |-> FirstImage]
    /\ linked_host \in [InstIds -> {None} \cup {Some(h) : h \in HostIds}]
    /\ aggregate \in [InstIds -> AggIds]
    /\ logs \in [InstIds -> SeqsUpTo(1..MaxTime, maxLogs)]
    /\ ended = {}

InitRequests ==
    /\ dispatchReady = FALSE
    /\ sent = <<>>
    /\ pc = [r \in Req |-> "idle"]
    /\ op = [r \in Req |-> "none"]
    /\ args = [r \in Req |-> <<>>]
    /\ tx = [r \in Req |-> "none"]
    /\ txw = [r \in Req |-> None]
    /\ inst = [r \in Req |-> None]
    /\ bs = [r \in Req |-> NoBs]
    /\ res = [r \in Req |-> "none"]
    /\ result = [r \in Req |-> Pending]

Init == InitStore(ShortLogs) /\ InitRequests

\* -------------------------------------------------------------- DISPATCH
\* workflows::entry initialises the OnceCell once at start-up
InitDispatch ==
    /\ ~dispatchReady
    /\ dispatchReady' = TRUE
    /\ UNCHANGED <<store, sent, pc, op, args, tx, txw, inst, bs, res, result>>

\* -------------------------------------------------------------- routing
\* routes(): an inbound request enters its handler with its parameters
Enter(r, handler, params, entry) ==
    /\ pc[r] = "idle"
    /\ op' = [op EXCEPT ![r] = handler]
    /\ args' = [args EXCEPT ![r] = params]
    /\ SetPc(r, entry)
    /\ UNCHANGED <<store, dispatchReady, sent, tx, txw, inst, bs, res, result>>

CallReimage(r) ==
    \E i \in ReqInstIds, img \in ImageIds :
        Enter(r, "reimage_host", [id |-> i, image_id |-> img], "rh_begin")

CallStatus(r) ==
    \E a \in ReqAggIds : Enter(r, "booking_status", [id |-> a], "bs_begin")

CallEnd(r) ==
    \E a \in ReqAggIds : Enter(r, "end_booking", [id |-> a], "eb_call")

CallNotify(r) ==
    \E a \in ReqAggIds, d \in Dates :
        Enter(r, "notify_aggregate_expiring", [id |-> a, date |-> d], "ne_send")

CallExtension(r) ==
    \E a \in ReqAggIds, d \in Dates, why \in Reasons :
        Enter(r, "request_booking_extension",
              [id |-> a, date |-> d, reason |-> why], "re_send")

\* ----------------------------------------------------------- end_booking
\* booking::end_booking(agg_id): fails for an aggregate that has no row,
\* and may fail on the store; on success the aggregate is ended
EndOutcomes(a) == IF a \in AggIds THEN {"Ok", "Err"} ELSE {"Err"}

EndError(a) == IF a \in AggIds THEN <<"store error", a>> ELSE <<"aggregate not found", a>>

\* mutant: the Err arm reports success
EndBookingResponseAlwaysOk(outcome, a) ==
    IF outcome = "Ok"
    THEN [success |-> TRUE, details |-> <<"Successfully ended booking with agg_id", a>>]
    ELSE [success |-> TRUE, details |-> EndError(a)]

EndBookingResponse(outcome, a) ==
    IF outcome = "Ok"
    THEN [success |-> TRUE, details |-> <<"Successfully ended booking with agg_id", a>>]
    ELSE [success |-> FALSE, details |-> EndError(a)]

end_booking(r) ==
    /\ pc[r] = "eb_call"
    /\ \E outcome \in EndOutcomes(args[r].id) :
        /\ res' = [res EXCEPT ![r] = outcome]
        /\ ended' = IF outcome = "Ok" THEN ended \cup {args[r].id} ELSE ended
        /\ Return(r, [kind |-> "Json", body |-> EndBookingResponse(outcome, args[r].id)])
    /\ UNCHANGED <<image, storeRO, dispatchReady, sent, op, args, tx>>

\* ---------------------------------------------------------- reimage_host
\* new_client() and easy_transaction()
rh_begin(r) ==
    /\ pc[r] = "rh_begin"
    /\ \/ /\ tx' = [tx EXCEPT ![r] = "open"]
          /\ SetPc(r, "rh_get")
          /\ UNCHANGED <<txw, inst, bs, result>>
       \/ /\ Return(r, Err(ISE, "db client error"))
          /\ UNCHANGED tx
    /\ UNCHANGED <<store, dispatchReady, sent, op, args, res>>

\* mutant: the requested image is never assigned to the row
SetImageDropped(row, image_id) == row

\* inst.config.image = image_id
SetImage(row, image_id) == [row EXCEPT !.image = image_id]

\* Instance::get, then the assignment of the new image to the local row
rh_get(r) ==
    /\ pc[r] = "rh_get"
    /\ \/ /\ args[r].id \in InstIds
          /\ inst' = [inst EXCEPT ![r] = Some(SetImage(InstanceRow(args[r].id), args[r].image_id))]
          /\ SetPc(r, "rh_update")
          /\ UNCHANGED <<tx, txw, bs, result>>
       \/ /\ Return(r, Err(ISE, "Error accessing image from database."))
          /\ DropTx(r)
    /\ UNCHANGED <<store, dispatchReady, sent, op, args, res>>

\* mutant: the update commits on its own, and the commit step follows
rh_update_commits(r) ==
    /\ pc[r] = "rh_update"
    /\ \/ /\ txw' = [txw EXCEPT ![r] = inst[r]]
          /\ image' = [image EXCEPT ![args[r].id] = args[r].image_id]
          /\ tx' = [tx EXCEPT ![r] = "committed"]
          /\ SetPc(r, "rh_commit")
          /\ UNCHANGED <<inst, bs, result>>
       \/ /\ Return(r, Err(ISE, "Error updating instance image."))
          /\ DropTx(r)
          /\ UNCHANGED image
    /\ UNCHANGED <<storeRO, ended, dispatchReady, sent, op, args, res>>

\* mutant: the row is written outside the transaction, visible at once
rh_update_autocommit(r) ==
    /\ pc[r] = "rh_update"
    /\ \/ /\ txw' = [txw EXCEPT ![r] = inst[r]]
          /\ image' = [image EXCEPT ![args[r].id] = args[r].image_id]
          /\ SetPc(r, "rh_commit")
          /\ UNCHANGED <<tx, inst, bs, result>>
       \/ /\ Return(r, Err(ISE, "Error updating instance image."))
          /\ DropTx(r)
          /\ UNCHANGED image
    /\ UNCHANGED <<storeRO, ended, dispatchReady, sent, op, args, res>>

\* inst.update(&mut transaction): the row is written inside the transaction
rh_update(r) ==
    /\ pc[r] = "rh_update"
    /\ \/ /\ txw' = [txw EXCEPT ![r] = inst[r]]
          /\ SetPc(r, "rh_commit")
          /\ UNCHANGED <<tx, inst, bs, result>>
       \/ /\ Return(r, Err(ISE, "Error updating instance image."))
          /\ DropTx(r)
    /\ UNCHANGED <<store, dispatchReady, sent, op, args, res>>

\* the store after the transaction's writes are applied
Committed(writes) ==
    [i \in InstIds |->
        IF \E w \in writes : w.id = i
        THEN (CHOOSE w \in writes : w.id = i).image
        ELSE image[i]]

\* mutant: a failed commit is tried again
rh_commit_err_retry(r) ==
    /\ DropTx(r)
    /\ UNCHANGED <<image, pc, txw, inst, bs, result>>

\* mutant: the commit's error is dropped and the handler goes on to dispatch
rh_commit_err_ignored(r) ==
    /\ DropTx(r)
    /\ SetPc(r, "rh_dispatch")
    /\ UNCHANGED <<image, txw, inst, bs, result>>

\* transaction.commit() returned Err: `?` returns the error
rh_commit_err(r) ==
    /\ Return(r, Err(ISE, "Error committing instance changes."))
    /\ DropTx(r)
    /\ UNCHANGED image

rh_commit(r) ==
    /\ pc[r] = "rh_commit"
    /\ \/ /\ image' = Committed(txw[r])
          /\ tx' = [tx EXCEPT ![r] = "committed"]
          /\ SetPc(r, "rh_dispatch")
          /\ UNCHANGED <<txw, inst, bs, result>>
       \/ rh_commit_err(r)
    /\ UNCHANGED <<storeRO, ended, dispatchReady, sent, op, args, res>>

Reimage(row, instance_id) ==
    [action |-> "Reimage", host_id |-> Unwrap(row.linked_host),
     inst_id |-> instance_id, agg_id |-> row.aggregate]

\* match res { Err(e) => tracing::error!(..), Ok(_) => {} }; Ok(())
rh_send_result(r, outcome) == Return(r, Ok(Unit))

\* mutant: a Reimage action already accepted for the instance is not sent again
rh_dispatch_dedup(r) ==
    /\ pc[r] = "rh_dispatch"
    /\ LET row == Unwrap(inst[r]) IN
       IF ~dispatchReady
       THEN /\ Return(r, Err(ISE, "Tascii was not found."))
            /\ UNCHANGED <<sent, res>>
       ELSE IF row.linked_host = None
       THEN /\ Return(r, Err(ISE, "No linked host was found for instance."))
            /\ UNCHANGED <<sent, res>>
       ELSE IF \E k \in DOMAIN sent : sent[k] = Reimage(row, args[r].id)
       THEN /\ Return(r, Ok(Unit))
            /\ UNCHANGED <<sent, res>>
       ELSE \E outcome \in {"Ok", "Err"} :
            /\ res' = [res EXCEPT ![r] = outcome]
            /\ sent' = IF outcome = "Ok"
                       THEN Append(sent, Reimage(row, args[r].id))
                       ELSE sent
            /\ rh_send_result(r, outcome)
    /\ UNCHANGED <<store, dispatchReady, op, args, tx>>

\* DISPATCH.get().ok_or(..)?.send(Reimage { host_id: inst.linked_host.ok_or(..)?, .. })
rh_dispatch(r) ==
    /\ pc[r] = "rh_dispatch"
    /\ LET row == Unwrap(inst[r]) IN
       IF ~dispatchReady
       THEN /\ Return(r, Err(ISE, "Tascii was not found."))
            /\ UNCHANGED <<sent, res>>
       ELSE IF row.linked_host = None
       THEN /\ Return(r, Err(ISE, "No linked host was found for instance."))
            /\ UNCHANGED <<sent, res>>
       ELSE \E outcome \in {"Ok", "Err"} :
            /\ res' = [res EXCEPT ![r] = outcome]
            /\ sent' = IF outcome = "Ok"
                       THEN Append(sent, Reimage(row, args[r].id))
                       ELSE sent
            /\ rh_send_result(r, outcome)
    /\ UNCHANGED <<store, dispatchReady, op, args, tx>>

\* ------------------------------------------- notify_aggregate_expiring etc.
NotifyTask(agg_id, situation, context) ==
    [action |-> "NotifyTask", agg_id |-> agg_id, situation |-> situation,
     context |-> context]

\* mutant: a missing dispatcher is skipped silently
no_dispatcher_ok(r) == Return(r, Ok(Unit))

\* DISPATCH.get().ok_or(..)? on an uninitialised handle
no_dispatcher(r) == Return(r, Err(ISE, "Unable to get dispatcher"))

\* dispatch.send(action).map_err(..)?; Ok(())
send_notify(r, action) ==
    IF ~dispatchReady
    THEN /\ no_dispatcher(r)
         /\ UNCHANGED <<sent, res>>
    ELSE \E outcome \in {"Ok", "Err"} :
         /\ res' = [res EXCEPT ![r] = outcome]
         /\ sent' = IF outcome = "Ok" THEN Append(sent, action) ELSE sent
         /\ Return(r, IF outcome = "Ok" THEN Ok(Unit)
                      ELSE Err(ISE, "Unable to execute notify task!"))

notify_aggregate_expiring(r) ==
    /\ pc[r] = "ne_send"
    /\ send_notify(r, NotifyTask(args[r].id, "BookingExpiring",
                                 <<<<"ending_override", args[r].date>>>>))
    /\ UNCHANGED <<store, dispatchReady, op, args, tx>>

\* mutant: the reason is left out of the context
request_booking_extension_no_reason(r) ==
    /\ pc[r] = "re_send"
    /\ send_notify(r, NotifyTask(args[r].id, "RequestBookingExtension",
                                 <<<<"extension_date", args[r].date>>>>))
    /\ UNCHANGED <<store, dispatchReady, op, args, tx>>

request_booking_extension(r) ==
    /\ pc[r] = "re_send"
    /\ send_notify(r, NotifyTask(args[r].id, "RequestBookingExtension",
                                 <<<<"extension_date", args[r].date>>,
                                   <<"extension_reason", args[r].reason>>>>))
    /\ UNCHANGED <<store, dispatchReady, op, args, tx>>

\* -------------------------------------------------------- booking_status
\* DateTime::to_rfc2822 prints the time to the second
to_rfc2822(t) == <<"rfc2822", t \div SubSec>>

\* prov_status.to_string()
StatusString(ps) == <<ps.event, ps.details>>

InstanceStatusUpdate(log) ==
    [sentiment |-> log.sentiment,
     status |-> StatusString(log.prov_status),
     status_info |-> [headline |-> log.prov_status.event,
                      subline |-> log.prov_status.details],
     time |-> to_rfc2822(log.time)]

\* logs_for_instance.sort_by_key(|v| v.time): a stable sort
RECURSIVE InsertByTime(_, _)
InsertByTime(sorted, e) ==
    IF sorted = <<>> THEN <<e>>
    ELSE IF sorted[Len(sorted)].time <= e.time THEN Append(sorted, e)
    ELSE Append(InsertByTime(SubSeq(sorted, 1, Len(sorted) - 1), e), sorted[Len(sorted)])

RECURSIVE SortFrom(_, _)
SortFrom(sorted, rest) ==
    IF rest = <<>> THEN sorted
    ELSE SortFrom(InsertByTime(sorted, Head(rest)), Tail(rest))

\* mutant: the events are left in insertion order
sort_skipped(s) == s

sort_by_time(s) == SortFrom(<<>>, s)

\* if let Some(v) = instance.linked_host
HasLinkedHost(instance) == instance.linked_host # None

\* the value of the if branch: (assigned_host, assigned_host_info)
HostFields(host) ==
    LET host_info == [hostname |-> host.server_name, ipmi_fqdn |-> host.ipmi_fqdn]
    IN <<Some(host.server_name), None>>

\* mutant: a placeholder name for an instance without a host
NoHostFieldsPlaceholder == <<Some(<<"host", "unassigned">>), None>>

\* the value of the else branch
NoHostFields == <<None, None>>

InstanceStatus(instance, sorted, fields) ==
    [instance |-> instance.id,
     assigned_host_info |-> fields[2],
     assigned_host |-> fields[1],
     host_alias |-> instance.hostname,
     logs |-> [k \in 1..Len(sorted) |-> InstanceStatusUpdate(sorted[k])]]

\* mutant: the map is keyed by the owning aggregate
InsertByAggregate(statuses, instance, inst_stat) ==
    [k \in DOMAIN statuses \cup {instance.aggregate} |->
        IF k = instance.aggregate THEN inst_stat ELSE statuses[k]]

\* statuses.insert(instance.id, inst_stat)
Insert(statuses, instance, inst_stat) ==
    [k \in DOMAIN statuses \cup {instance.id} |->
        IF k = instance.id THEN inst_stat ELSE statuses[k]]

\* the orders in which the store may return the rows of a set of ids
Orders(ids) ==
    {s \in [1..Cardinality(ids) -> ids] : \A a, b \in DOMAIN s : a # b => s[a] # s[b]}

bs_begin(r) ==
    /\ pc[r] = "bs_begin"
    /\ \/ /\ tx' = [tx EXCEPT ![r] = "open"]
          /\ SetPc(r, "bs_agg")
          /\ UNCHANGED <<txw, inst, bs, result>>
       \/ /\ Return(r, Err(ISE, "db client error"))
          /\ UNCHANGED tx
    /\ UNCHANGED <<store, dispatchReady, sent, op, args, res>>

\* FKey::from_id(agg_id).get(&mut transaction)
bs_agg(r) ==
    /\ pc[r] = "bs_agg"
    /\ \/ /\ args[r].id \in AggIds
          /\ bs' = [bs EXCEPT ![r].agg = Some(AggregateRow(args[r].id))]
          /\ SetPc(r, "bs_instances")
          /\ UNCHANGED <<tx, txw, inst, result>>
       \/ /\ Return(r, Err(ISE, "failed to look up aggregate by given ID"))
          /\ DropTx(r)
    /\ UNCHANGED <<store, dispatchReady, sent, op, args, res>>

\* the loop continues with the next instance, or leaves for the template
NextInstance(r, todo, statuses) ==
    /\ bs' = [bs EXCEPT ![r].todo = todo, ![r].statuses = statuses, ![r].cur = <<>>]
    /\ SetPc(r, IF todo = <<>> THEN "bs_template" ELSE "bs_logs")

\* agg.instances(&mut transaction)
bs_instances(r) ==
    /\ pc[r] = "bs_instances"
    /\ \/ /\ \E order \in Orders({i \in InstIds : aggregate[i] = Unwrap(bs[r].agg).id}) :
                NextInstance(r, [k \in DOMAIN order |-> InstanceRow(order[k])], <<>>)
          /\ UNCHANGED <<tx, txw, inst, result>>
       \/ /\ Return(r, Err(ISE, "db client error"))
          /\ DropTx(r)
    /\ UNCHANGED <<store, dispatchReady, sent, op, args, res>>

\* mutant: an instance whose events cannot be loaded is left out of the view
bs_logs_skip_on_error(r) ==
    /\ pc[r] = "bs_logs"
    /\ LET instance == Head(bs[r].todo)
           logs_for_instance == sort_by_time(EventRows(instance.id))
       IN \/ /\ IF HasLinkedHost(instance)
                THEN /\ bs' = [bs EXCEPT ![r].cur = logs_for_instance]
                     /\ SetPc(r, "bs_host")
                ELSE NextInstance(r, Tail(bs[r].todo),
                        Insert(bs[r].statuses, instance,
                               InstanceStatus(instance, logs_for_instance, NoHostFields)))
             /\ UNCHANGED <<tx, txw, inst, result>>
          \/ /\ NextInstance(r, Tail(bs[r].todo), bs[r].statuses)
             /\ UNCHANGED <<tx, txw, inst, result>>
    /\ UNCHANGED <<store, dispatchReady, sent, op, args, res>>

\* ProvisionLogEvent::all_for_instance, the sort, and for an instance without
\* a linked host the rest of the loop body
bs_logs(r) ==
    /\ pc[r] = "bs_logs"
    /\ LET instance == Head(bs[r].todo)
           logs_for_instance == sort_by_time(EventRows(instance.id))
       IN \/ /\ IF HasLinkedHost(instance)
                THEN /\ bs' = [bs EXCEPT ![r].cur = logs_for_instance]
                     /\ SetPc(r, "bs_host")
                ELSE NextInstance(r, Tail(bs[r].todo),
                        Insert(bs[r].statuses, instance,
                               InstanceStatus(instance, logs_for_instance, NoHostFields)))
             /\ UNCHANGED <<tx, txw, inst, result>>
          \/ /\ Return(r, Err(ISE, "db client error"))
             /\ DropTx(r)
    /\ UNCHANGED <<store, dispatchReady, sent, op, args, res>>

\* v.get(&mut transaction) of the linked host, and the rest of the loop body
bs_host(r) ==
    /\ pc[r] = "bs_host"
    /\ LET instance == Head(bs[r].todo)
           host == HostRow(Unwrap(instance.linked_host))
       IN \/ /\ NextInstance(r, Tail(bs[r].todo),
                    Insert(bs[r].statuses, instance,
                           InstanceStatus(instance, bs[r].cur, HostFields(host))))
             /\ UNCHANGED <<tx, txw, inst, result>>
          \/ /\ Return(r, Err(ISE, "db client error"))
             /\ DropTx(r)
    /\ UNCHANGED <<store, dispatchReady, sent, op, args, res>>

\* mutant: the aggregate is marked ended when its template cannot be found
bs_template_ends(r) ==
    /\ pc[r] = "bs_template"
    /\ \/ /\ bs' = [bs EXCEPT ![r].template = Some(TemplateRow(Unwrap(bs[r].agg).template))]
          /\ SetPc(r, "bs_commit")
          /\ UNCHANGED <<tx, txw, inst, result, ended>>
       \/ /\ Return(r, Panic("Expected to find template"))
          /\ DropTx(r)
          /\ ended' = ended \cup {args[r].id}
    /\ UNCHANGED <<image, storeRO, dispatchReady, sent, op, args, res>>

\* agg.template.get(&mut transaction).await.expect("Expected to find template")
bs_template(r) ==
    /\ pc[r] = "bs_template"
    /\ \/ /\ bs' = [bs EXCEPT ![r].template = Some(TemplateRow(Unwrap(bs[r].agg).template))]
          /\ SetPc(r, "bs_commit")
          /\ UNCHANGED <<tx, txw, inst, result>>
       \/ /\ Return(r, Panic("Expected to find template"))
          /\ DropTx(r)
    /\ UNCHANGED <<store, dispatchReady, sent, op, args, res>>

BookingStatus(b) ==
    [instances |-> b.statuses,
     config |-> Unwrap(b.agg).configuration,
     template |-> Unwrap(b.template)]

\* mutant: the view is returned whether or not the commit succeeded
bs_commit_unchecked(r) ==
    /\ pc[r] = "bs_commit"
    /\ \/ /\ tx' = [tx EXCEPT ![r] = "committed"]
          /\ Return(r, Ok(BookingStatus(bs[r])))
       \/ /\ Return(r, Ok(BookingStatus(bs[r])))
          /\ DropTx(r)
    /\ UNCHANGED <<store, dispatchReady, sent, op, args, res>>

\* transaction.commit(), then Ok(Json(BookingStatus { .. }))
bs_commit(r) ==
    /\ pc[r] = "bs_commit"
    /\ \/ /\ tx' = [tx EXCEPT ![r] = "committed"]
          /\ Return(r, Ok(BookingStatus(bs[r])))
       \/ /\ Return(r, Err(ISE, "db client error"))
          /\ DropTx(r)
    /\ UNCHANGED <<store, dispatchReady, sent, op, args, res>>

\* ------------------------------------------------------- specifications
Reimaging(r) ==
    \/ CallReimage(r)
    \/ rh_begin(r)
    \/ rh_get(r)
    \/ rh_update(r)
    \/ rh_commit(r)
    \/ rh_dispatch(r)

Status(r) ==
    \/ CallStatus(r)
    \/ bs_begin(r)
    \/ bs_agg(r)
    \/ bs_instances(r)
    \/ bs_logs(r)
    \/ bs_host(r)
    \/ bs_template(r)
    \/ bs_commit(r)

Notifying(r) ==
    \/ CallEnd(r)
    \/ end_booking(r)
    \/ CallNotify(r)
    \/ notify_aggregate_expiring(r)
    \/ CallExtension(r)
    \/ request_booking_extension(r)

Next ==
    \/ InitDispatch
    \/ \E r \in Req : Reimaging(r) \/ Status(r) \/ Notifying(r)

Spec == Init /\ [][Next]_vars

\* one status request at a time, over a store with longer event histories
InitStatus == InitStore(MaxLogs) /\ InitRequests

FirstReq == CHOOSE r \in Req : \A q \in Req : r <= q

NextStatus == Status(FirstReq)

SpecStatus == InitStatus /\ [][NextStatus]_vars

\* ------------------------------------------------------------ properties
IsReimage(r) == op[r] = "reimage_host"
IsStatus(r) == op[r] = "booking_status"
Returned(r) == pc[r] = "done"
StatusView(r) == result[r].body.instances
ReturnedView(r) == IsStatus(r) /\ Returned(r) /\ result[r].kind = "Ok"
ReimagesSent == {k \in DOMAIN sent : sent[k].action = "Reimage"}

\* C1: reimage_host calls send only in a request whose transaction has
\* committed, so the Reimage actions sent never outnumber the committed
\* reimage transactions.
C1_DispatchOnlyAfterCommit ==
    /\ \A r \in Req :
        IsReimage(r) /\ (pc[r] = "rh_dispatch" \/ res[r] # "none") => tx[r] = "committed"
    /\ Cardinality(ReimagesSent)
         <= Cardinality({r \in Req : IsReimage(r) /\ tx[r] = "committed"})

C1_Witness ==
    \E r \in Req :
        /\ IsReimage(r) /\ res[r] = "Ok" /\ tx[r] = "committed"
        /\ \E k \in ReimagesSent : sent[k].inst_id = args[r].id

\* C2: a reimage_host request on an existing instance without a linked host
\* changes no stored image and sends no action.
C2_NoLinkedHostNoMutation ==
    [][\A r \in Req :
        (/\ IsReimage(r)
         /\ args[r].id \in InstIds
         /\ linked_host[args[r].id] = None
         /\ pc'[r] # pc[r])
        => image' = image /\ sent' = sent]_vars

\* C3: once a reimage_host request has committed, the stored image of its
\* instance is the image it asked for, at the dispatch step and after every
\* outcome of it, unless another request committed an image for the same
\* instance.
C3_CommittedImageStays ==
    \A r \in Req :
        (/\ IsReimage(r)
         /\ tx[r] = "committed"
         /\ \A q \in Req \ {r} :
                ~(IsReimage(q) /\ args[q].id = args[r].id /\ tx[q] = "committed"))
        => image[args[r].id] = args[r].image_id

C3_Witness ==
    \E r \in Req :
        /\ IsReimage(r) /\ Returned(r) /\ tx[r] = "committed"
        /\ result[r] = Err(ISE, "Tascii was not found.")
        /\ args[r].image_id # FirstImage
        /\ image[args[r].id] = args[r].image_id

\* C4: reimage_host returns success only if the dispatcher accepted the
\* Reimage action.
C4_DispatchFailureSurfaced ==
    \A r \in Req :
        IsReimage(r) /\ Returned(r) /\ result[r].kind = "Ok" => res[r] = "Ok"

C6_LogsSortedPermutation ==
    \A r \in Req :
        ReturnedView(r) =>
            \A i \in DOMAIN StatusView(r) :
                LET out == StatusView(r)[i].logs
                    ev == EventRows(i)
                IN /\ Len(out) = Len(ev)
                   /\ \E p \in Orders(DOMAIN ev) :
                        /\ \A k \in DOMAIN ev : out[k] = InstanceStatusUpdate(ev[p[k]])
                        /\ \A k \in DOMAIN ev :
                             k < Len(ev) => ev[p[k]].time <= ev[p[k + 1]].time

C6_Witness ==
    \E r \in Req :
        /\ ReturnedView(r)
        /\ \E i, j \in DOMAIN StatusView(r) :
            /\ logs[i] = <<3, 1, 2>>
            /\ StatusView(r)[i].logs[1] = InstanceStatusUpdate(EventRows(i)[2])
            /\ StatusView(r)[i].logs[3] = InstanceStatusUpdate(EventRows(i)[1])
            /\ logs[j] = <<>>
            /\ StatusView(r)[j].logs = <<>>

\* C7: in a returned view an instance has assigned-host info exactly if it has
\* a linked host, and the info holds that host's name and IPMI address.
C7_HostInfoPopulated ==
    \A r \in Req :
        ReturnedView(r) =>
            \A i \in DOMAIN StatusView(r) :
                StatusView(r)[i].assigned_host_info =
                    IF linked_host[i] = None THEN None
                    ELSE Some([hostname |-> HostRow(Unwrap(linked_host[i])).server_name,
                               ipmi_fqdn |-> HostRow(Unwrap(linked_host[i])).ipmi_fqdn])

\* C8: an instance without a linked host has its entry in a returned view with
\* assigned_host_info and assigned_host absent, and booking_status never looks
\* up a host for it.
C8_NoHostFieldsAbsent ==
    \A r \in Req :
        /\ ReturnedView(r) =>
            \A i \in InstIds :
                aggregate[i] = args[r].id /\ linked_host[i] = None =>
                    /\ i \in DOMAIN StatusView(r)
                    /\ StatusView(r)[i].assigned_host_info = None
                    /\ StatusView(r)[i].assigned_host = None
        /\ pc[r] = "bs_host" => Head(bs[r].todo).linked_host # None

C8_Witness ==
    \E r \in Req :
        /\ ReturnedView(r)
        /\ \E i, j \in DOMAIN StatusView(r) :
            /\ linked_host[i] = None
            /\ StatusView(r)[i].assigned_host = None
            /\ linked_host[j] # None

\* C9: end_booking always returns the {success, details} payload; success is
\* true exactly if booking::end_booking returned Ok, and on failure details is
\* the error's text.
C9_EndBookingStructured ==
    \A r \in Req :
        op[r] = "end_booking" /\ Returned(r) =>
            /\ result[r].kind = "Json"
            /\ result[r].body.success = (res[r] = "Ok")
            /\ res[r] = "Err" => result[r].body.details = EndError(args[r].id)

C9_Witness ==
    \E r, q \in Req :
        /\ op[r] = "end_booking" /\ Returned(r)
        /\ args[r].id \notin AggIds
        /\ ~result[r].body.success
        /\ op[q] = "end_booking" /\ Returned(q)
        /\ result[q].body.success

IsNotify(r) == op[r] \in {"notify_aggregate_expiring", "request_booking_extension"}
NoDispatcher == Err(ISE, "Unable to get dispatcher")

\* C10: a notify_aggregate_expiring or request_booking_extension step taken
\* while DISPATCH is uninitialised returns the error "Unable to get dispatcher"
\* and changes nothing else: no action sent, no transaction, the store as it was.
C10_NotifyWithoutDispatcher ==
    [][\A r \in Req :
        IsNotify(r) /\ pc'[r] # pc[r] /\ ~dispatchReady =>
            /\ result'[r] = NoDispatcher
            /\ sent' = sent
            /\ tx' = tx
            /\ res' = res
            /\ store' = store]_vars

C10_Witness ==
    \E r, q \in Req :
        /\ op[r] = "notify_aggregate_expiring" /\ result[r] = NoDispatcher
        /\ op[q] = "request_booking_extension" /\ result[q] = NoDispatcher
        /\ sent = <<>>
        /\ tx[r] = "none" /\ tx[q] = "none"

\* the image values committed for instance i: the initial one and the ones
\* of the reimage_host requests on i whose transaction has committed
CommittedImages(i) ==
    {FirstImage} \cup
    {args[q].image_id : q \in {p \in Req : IsReimage(p) /\ args[p].id = i /\ tx[p] = "committed"}}

\* C11: every instance row a booking_status request has read holds an image
\* value that was committed: the initial one or the one of a committed reimage;
\* the image written in a transaction that has not committed is never read.
C11_StatusReadsCommittedImage ==
    \A r \in Req :
        IsStatus(r) =>
            \A k \in DOMAIN bs[r].todo :
                bs[r].todo[k].image \in CommittedImages(bs[r].todo[k].id)

C11_Witness ==
    \E r, q \in Req :
        /\ IsStatus(r) /\ IsReimage(q)
        /\ tx[q] = "open" /\ txw[q] # None
        /\ args[q].image_id # FirstImage
        /\ \E k \in DOMAIN bs[r].todo :
            /\ bs[r].todo[k].id = args[q].id
            /\ bs[r].todo[k].image = FirstImage

TxUser(r) == IsReimage(r) \/ IsStatus(r)
\* the positions at which a handler calls the store or its transaction
StoreSteps ==
    {"rh_get", "rh_update", "rh_commit",
     "bs_agg", "bs_instances", "bs_logs", "bs_host", "bs_template", "bs_commit"}
OpenSteps == {"rh_begin", "bs_begin"}
TxMoves == {<<"none", "open">>, <<"open", "committed">>, <<"open", "aborted">>}

\* C12 as stated: every reimage_host and booking_status request makes its
\* store calls inside an open transaction and has opened exactly one
\* transaction by the time it returns.
C12_ExactlyOneTransaction ==
    \A r \in Req :
        TxUser(r) =>
            /\ pc[r] \in StoreSteps => tx[r] = "open"
            /\ Returned(r) => tx[r] \in {"committed", "aborted"}

\* C12 amended: a request opens at most one transaction and never a second
\* one (its transaction only moves none -> open -> committed or aborted, so it
\* is committed at most once), every store call is made while it is open, and
\* a request returns without having opened one only if opening the client or
\* the transaction failed.
C12_AtMostOneTransaction ==
    [][\A r \in Req :
        /\ pc'[r] \in StoreSteps => tx'[r] = "open"
        /\ tx'[r] # tx[r] => <<tx[r], tx'[r]>> \in TxMoves
        /\ (TxUser(r) /\ pc[r] # "done" /\ pc'[r] = "done")
            => (tx'[r] = "none" <=> pc[r] \in OpenSteps)]_vars

C12_Witness ==
    \E r, q \in Req :
        /\ IsReimage(r) /\ Returned(r)
        /\ tx[r] = "none" /\ result[r] = Err(ISE, "db client error")
        /\ IsStatus(q) /\ Returned(q) /\ tx[q] = "committed"

Owned(a) == {i \in InstIds : aggregate[i] = a}

\* C13: a booking_status request that ends while loading the instance list,
\* an instance's events or a linked host ends with an error; a view is returned
\* only by the commit step, after every instance was processed, and it holds a
\* complete record (all stored events, the linked host's name) for every
\* instance of the aggregate.
C13_AllOrNothing ==
    [][\A r \in Req :
        (IsStatus(r) /\ pc[r] # "done" /\ pc'[r] = "done") =>
            /\ pc[r] \in {"bs_instances", "bs_logs", "bs_host"} => result'[r].kind = "Err"
            /\ result'[r].kind = "Ok" =>
                LET view == result'[r].body.instances
                IN /\ pc[r] = "bs_commit"
                   /\ bs[r].todo = <<>>
                   /\ DOMAIN view = Owned(args[r].id)
                   /\ \A i \in DOMAIN view :
                        /\ Len(view[i].logs) = Len(logs[i])
                        /\ linked_host[i] # None =>
                             view[i].assigned_host
                               = Some(HostRow(Unwrap(linked_host[i])).server_name)]_vars

C13_Witness ==
    \E r \in Req :
        /\ IsStatus(r) /\ Returned(r)
        /\ result[r] = Err(ISE, "db client error")
        /\ tx[r] = "aborted"
        /\ \E i, j \in Owned(args[r].id) :
            /\ i # j
            /\ logs[i] # <<>>
            /\ linked_host[j] # None

\* C14: a reimage_host request that looked up an instance id without a row
\* returns a NotFound (404) error, and has neither committed nor called send.
C14_MissingInstanceNotFound ==
    \A r \in Req :
        (IsReimage(r) /\ Returned(r) /\ args[r].id \notin InstIds /\ tx[r] # "none") =>
            /\ result[r].kind = "Err"
            /\ result[r].code = "NOT_FOUND"
            /\ tx[r] # "committed"
            /\ res[r] = "none"

\* C15: every booking_status request ends with a view or a structured error,
\* never a panic, also when the template lookup fails; a lookup of an aggregate
\* id without a row ends with NotFound.
C15_StatusFailuresStructured ==
    \A r \in Req :
        (IsStatus(r) /\ Returned(r)) =>
            /\ result[r].kind \in {"Ok", "Err"}
            /\ (args[r].id \notin AggIds /\ tx[r] # "none") =>
                    result[r].kind = "Err" /\ result[r].code = "NOT_FOUND"

Sender(r) == IsReimage(r) \/ IsNotify(r)

\* C16: no handler retries: a reimage_host request whose transaction was
\* rolled back has returned, one whose commit succeeded is at the dispatch step
\* or has returned, every request that called send has returned, and every
\* accepted action belongs to one request's single accepted send.
C16_NoRetry ==
    /\ \A r \in Req :
        /\ IsReimage(r) =>
            /\ tx[r] = "aborted" => Returned(r)
            /\ tx[r] = "committed" => pc[r] \in {"rh_dispatch", "done"}
        /\ Sender(r) /\ res[r] # "none" => Returned(r)
    /\ Len(sent) = Cardinality({r \in Req : Sender(r) /\ res[r] = "Ok"})

C16_Witness ==
    \E r, q \in Req :
        /\ IsReimage(r) /\ Returned(r)
        /\ result[r] = Err(ISE, "Error committing instance changes.")
        /\ tx[r] = "aborted" /\ res[r] = "none"
        /\ IsNotify(q) /\ Returned(q)
        /\ res[q] = "Err" /\ result[q] = Err(ISE, "Unable to execute notify task!")
        /\ sent = <<>>

\* C17: reimage_host neither deduplicates nor serialises: every commit of a
\* reimage request overwrites the stored image of its instance with the image
\* it asked for (the last commit wins), no other step changes a stored image,
\* and every committed request on a linked instance, with DISPATCH initialised,
\* calls send with the Reimage action of that instance, its host and its
\* aggregate, whatever was sent before; an accepted action is appended.
C17_NoDeduplication ==
    [][/\ \A r \in Req :
            IsReimage(r) =>
                /\ (tx[r] = "open" /\ tx'[r] = "committed") =>
                        image' = [image EXCEPT ![args[r].id] = args[r].image_id]
                /\ (/\ pc[r] = "rh_dispatch" /\ pc'[r] = "done"
                    /\ dispatchReady
                    /\ linked_host[args[r].id] # None) =>
                        /\ res'[r] \in {"Ok", "Err"}
                        /\ res'[r] = "Ok" =>
                            sent' = Append(sent,
                                [action |-> "Reimage",
                                 host_id |-> Unwrap(linked_host[args[r].id]),
                                 inst_id |-> args[r].id,
                                 agg_id |-> aggregate[args[r].id]])
                        /\ res'[r] = "Err" => sent' = sent
       /\ (\A r \in Req : ~(IsReimage(r) /\ tx[r] = "open" /\ tx'[r] = "committed"))
            => image' = image]_vars

C17_Witness ==
    \E r, q \in Req :
        /\ r # q
        /\ IsReimage(r) /\ IsReimage(q)
        /\ args[r].id = args[q].id
        /\ args[r].image_id # args[q].image_id
        /\ Returned(r) /\ Returned(q)
        /\ res[r] = "Ok" /\ res[q] = "Ok"
        /\ Len(sent) > 1
        /\ sent[1] = sent[Len(sent)]
        /\ image[args[r].id] = args[r].image_id

\* C18: no step of a booking_status request, whether it goes on, fails or
\* returns, sends an action or changes a stored row.
C18_StatusReadOnly ==
    [][\A r \in Req :
        (IsStatus(r) /\ pc'[r] # pc[r]) =>
            /\ sent' = sent
            /\ store' = store
            /\ txw'[r] = None
            /\ res' = res]_vars

C18_Witness ==
    \E r, q \in Req :
        /\ ReturnedView(r)
        /\ DOMAIN StatusView(r) # {}
        /\ IsStatus(q) /\ Returned(q) /\ result[q].kind = "panic"
        /\ sent = <<>>
        /\ image = [i \in InstIds |-> FirstImage]
        /\ ended = {}

\* C19: with DISPATCH initialised, notify_aggregate_expiring calls send once
\* with NotifyTask(agg, BookingExpiring, [ending_override = date]) and
\* request_booking_extension with NotifyTask(agg, RequestBookingExtension,
\* [extension_date = date, extension_reason = reason]); an accepted action is
\* appended and the handler returns Ok, a rejected one gives an error; no
\* transaction is opened and the store is unchanged.
C19_NotifyDispatches ==
    [][\A r \in Req :
        (IsNotify(r) /\ pc'[r] # pc[r] /\ dispatchReady) =>
            LET task ==
                IF op[r] = "notify_aggregate_expiring"
                THEN [action |-> "NotifyTask", agg_id |-> args[r].id,
                      situation |-> "BookingExpiring",
                      context |-> << <<"ending_override", args[r].date>> >>]
                ELSE [action |-> "NotifyTask", agg_id |-> args[r].id,
                      situation |-> "RequestBookingExtension",
                      context |-> << <<"extension_date", args[r].date>>,
                                     <<"extension_reason", args[r].reason>> >>]
            IN /\ pc'[r] = "done"
               /\ res'[r] \in {"Ok", "Err"}
               /\ res'[r] = "Ok" => sent' = Append(sent, task) /\ result'[r] = Ok(Unit)
               /\ res'[r] = "Err" => sent' = sent /\ result'[r].kind = "Err"
               /\ tx' = tx
               /\ store' = store]_vars

C19_Witness ==
    \E r, q \in Req :
        /\ op[r] = "notify_aggregate_expiring" /\ result[r] = Ok(Unit)
        /\ op[q] = "request_booking_extension" /\ result[q] = Ok(Unit)
        /\ Len(sent) > 1
        /\ \E k \in DOMAIN sent : sent[k].situation = "BookingExpiring"
        /\ \E k \in DOMAIN sent : sent[k].situation = "RequestBookingExtension"
        /\ tx[r] = "none" /\ tx[q] = "none"

\* C20 as stated: a booking_status request that opened a transaction has
\* committed it when it returns, and it returns a view only after the commit.
C20_StatusAlwaysCommits ==
    \A r \in Req :
        (IsStatus(r) /\ Returned(r) /\ tx[r] # "none") =>
            /\ tx[r] = "committed"
            /\ result[r].kind = "Ok" => tx[r] = "committed"

\* C20 amended: a booking_status request never returns with its transaction
\* open: it is committed exactly if a view is returned, and on every other
\* path (an error, a failed commit, the template panic) it is dropped without
\* a commit, which rolls it back.
C20_StatusClosesTransaction ==
    \A r \in Req :
        (IsStatus(r) /\ Returned(r)) =>
            /\ tx[r] # "open"
            /\ result[r].kind = "Ok" <=> tx[r] = "committed"
            /\ result[r].kind # "Ok" => tx[r] \in {"none", "aborted"}

C20_Witness ==
    \E r, q \in Req :
        /\ ReturnedView(r) /\ tx[r] = "committed"
        /\ IsStatus(q) /\ Returned(q)
        /\ result[q] = Err(ISE, "db client error")
        /\ tx[q] = "aborted"

====
